---- MODULE Spec2Model ----
(***************************************************************************)
(* Model of edgefirst-dev/jwt: the key lifecycle manager of src/lib/jwk.ts *)
(* (scan, importKeyPair, generateKeyPair, storeKeyPair, signingKeys,       *)
(* encryptionKeys) and the token codec of src/lib/jwt.ts (JWT.sign,        *)
(* JWT.verify), run against a FileStorage listed one entry per page.       *)
(*                                                                         *)
(* Spec       one caller: key lifecycle, JWT.sign and JWT.verify           *)
(* SpecView   one caller calling signingKeys again and again               *)
(* SpecRace   two concurrent callers                                       *)
(* SpecTerm   one call run to its end, its steps taken fairly              *)
(* SpecFaults one caller, records removed during a scan or malformed       *)
(* SpecStale  one caller, storage reads lagging the writes                 *)
(* SpecSign   JWT.sign and JWK.toJSON on any key list                      *)
(* SpecJWT    a JWT instance: Proxy get/set, accessors, sign, decode       *)
(* SpecClaims a JWT instance: the registered claims read and assigned      *)
(***************************************************************************)
EXTENDS Integers, Sequences, FiniteSets, TLC

\* ------------------------------------------------------------------ bounds
MaxInit == 1        \* records the storage holds when the program starts
MaxCreated == 1     \* created timestamps of those records: 1..MaxCreated
MaxTime == 2        \* Date.now() never passes MaxTime
MaxStore == 3       \* records the storage has room for
MaxKeys == 3        \* key pairs in a list handed to JWT.sign directly
MaxExp == 2         \* exp claims of a payload: 0..MaxExp
MaxSec == 2         \* dates handed to a setter: MaxSec whole seconds at most

\* --------------------------------------------------------------- constants
Callers == {"c1", "c2"}

ES256 == "ES256"
RSA_OAEP_512 == "RSA-OAEP-512"
Algoritm == {ES256, RSA_OAEP_512}

Signing == "signing:key"
Encryption == "encryption:key"
Prefix == {Signing, Encryption}

NoCursor == <<>>
NoFile == [absent |-> TRUE]
NoKey == [absent |-> TRUE]
NoToken == [state |-> "none"]
NoVerify == [state |-> "none"]
NoOption == "undefined"

PayloadAud == "audience"
PayloadIss == "https://example.com"

\* the payload the tests sign: a payload is the object's own keys and values
TestPayload == [aud |-> PayloadAud, iss |-> PayloadIss]

NoCall == [absent |-> TRUE]
NoResult == [op |-> "none"]

VARIABLES
    storage,    \* the FileStorage: stored key records, in listing order
    clock,      \* Date.now()
    nextId,     \* the next crypto.randomUUID()
    pc,         \* per caller: where its call stands
    prefix,     \* per caller: the prefix its call scans
    cursor,     \* per caller: scan's cursor
    files,      \* per caller: the batch scan yielded, being consumed
    results,    \* per caller: the key pairs collected by the running scan
    returned,   \* per caller: the key pairs its last call returned
    before,     \* per caller: the storage when its call started
    sets,       \* per caller: storage.set calls made by its call
    reruns,     \* per caller: re-runs (recursive calls) made by its call
    token,      \* the last token JWT.sign produced
    signedWith, \* the key list that token was signed with, while the caller holds it
    lastVerify, \* the last JWT.verify call on the returned keys: options, outcome
    previous,   \* what the caller's call before this one returned
    written,    \* another writer changed the storage since the last call began
    replica,    \* what storage.list and storage.get read where writes show late
    jwt,        \* a JWT instance: its class and its payload object
    last        \* what the last operation on the instance returned

vars == <<storage, clock, nextId, pc, prefix, cursor, files,
          results, returned, before, sets, reruns, token, signedWith,
          lastVerify, previous, written, replica, jwt, last>>

callVars == <<pc, prefix, cursor, files, results, returned, before, sets, reruns>>
tokenVars == <<token, signedWith, lastVerify>>
keyVars == <<storage, clock, nextId, callVars>>
viewVars == <<previous, written, replica>>
jwtVars == <<jwt, last>>

\* ------------------------------------------------------------ the storage
AlgOf(p) == IF p = Signing THEN ES256 ELSE RSA_OAEP_512

KeyOf(rec) == <<rec.prefix, rec.id>>

Matching(store, p) == {i \in 1..Len(store) : store[i].prefix = p}

Min(S) == CHOOSE x \in S : \A y \in S : x <= y

\* position of the entry stored under key; past the end when there is none
IndexOfKey(store, key) ==
    IF \E i \in 1..Len(store) : KeyOf(store[i]) = key
    THEN CHOOSE i \in 1..Len(store) : KeyOf(store[i]) = key
    ELSE Len(store)

\* storage.list({ prefix, cursor, limit: 1 })
list(store, p, cur) ==
    LET start == IF cur = NoCursor THEN 0 ELSE IndexOfKey(store, cur)
        cand == {i \in Matching(store, p) : i > start}
    IN  IF cand = {}
        THEN [files |-> <<>>, cursor |-> NoCursor]
        ELSE LET i == Min(cand)
             IN  [files |-> <<KeyOf(store[i])>>,
                  cursor |-> IF cand \ {i} # {} THEN KeyOf(store[i]) ELSE NoCursor]

\* storage.get(key)
get(store, key) ==
    IF \E i \in 1..Len(store) : KeyOf(store[i]) = key
    THEN store[IndexOfKey(store, key)]
    ELSE NoFile

InsertAt(store, pos, rec) ==
    SubSeq(store, 1, pos) \o <<rec>> \o SubSeq(store, pos + 1, Len(store))

\* where storage.list may show a key that is new to the storage: behind the
\* keys it holds (insertion order) or before them (key order)
Places(store) == {0, Len(store)}

\* storage.set(key, file): an existing key keeps its place in the listing
set(store, rec, pos) ==
    IF \E i \in 1..Len(store) : KeyOf(store[i]) = KeyOf(rec)
    THEN [store EXCEPT ![IndexOfKey(store, KeyOf(rec))] = rec]
    ELSE InsertAt(store, pos, rec)

\* ------------------------------------------------------- key record codec
\* generateKeyPair(alg): the serialized key pair
generateKeyPairTimeId(alg, uuid, now) ==
    [id |-> MaxInit + 1 + now, created |-> now, alg |-> alg]

generateKeyPair(alg, uuid, now) ==
    [id |-> uuid, created |-> now, alg |-> alg]

\* what storeKeyPair writes under `${prefix}:${serialized.id}`
FileOfSigning(p, serialized) ==
    [prefix |-> Signing, id |-> serialized.id, created |-> serialized.created,
     alg |-> serialized.alg, expired |-> FALSE]

FileOfOneKey(p, serialized) ==
    [prefix |-> p, id |-> MaxInit, created |-> serialized.created,
     alg |-> serialized.alg, expired |-> FALSE]

FileOf(p, serialized) ==
    [prefix |-> p, id |-> serialized.id, created |-> serialized.created,
     alg |-> serialized.alg, expired |-> FALSE]

\* importKeyPair(value): the key material is imported with value.alg, the
\* key pair is labelled ES256 whatever value.alg is
importKeyPair(value) ==
    [id |-> value.id, alg |-> ES256, created |-> value.created,
     expired |-> value.expired, material |-> value.alg,
     kid |-> value.id, use |-> "sig"]

\* results.sort((a, b) => b.created.getTime() - a.created.getTime()):
\* a stable sort, descending by created
RECURSIVE InsertSorted(_, _)
InsertSorted(sorted, kp) ==
    IF sorted = <<>> THEN <<kp>>
    ELSE IF Head(sorted).created >= kp.created
         THEN <<Head(sorted)>> \o InsertSorted(Tail(sorted), kp)
         ELSE <<kp>> \o sorted

RECURSIVE SortAscending(_)
SortAscending(rs) ==
    IF rs = <<>> THEN <<>>
    ELSE LET rest == SortAscending(Tail(rs))
             lower == SelectSeq(rest, LAMBDA k : k.created <= Head(rs).created)
             upper == SelectSeq(rest, LAMBDA k : k.created > Head(rs).created)
         IN  lower \o <<Head(rs)>> \o upper

RECURSIVE SortByCreated(_)
SortByCreated(rs) ==
    IF rs = <<>> THEN <<>>
    ELSE InsertSorted(SortByCreated(SubSeq(rs, 1, Len(rs) - 1)), rs[Len(rs)])

\* results.filter((item) => !item.expired).length > 0
AlwaysValid(rs) == Len(SelectSeq(rs, LAMBDA item : ~item.expired)) >= 0

AnyExpired(rs) == Len(SelectSeq(rs, LAMBDA item : item.expired)) > 0

HasValid(rs) == Len(SelectSeq(rs, LAMBDA item : ~item.expired)) > 0

\* ------------------------------------------------------------ token codec
Max(S) == CHOOSE x \in S : \A y \in S : x >= y

\* JWT.sign: jwks.find((key) => key.alg === algorithm), the first such key
\* in list order
SignKeyLast(jwks, algorithm) ==
    LET hit == {i \in 1..Len(jwks) : jwks[i].alg = algorithm}
    IN  IF hit = {} THEN NoKey ELSE jwks[Max(hit)]

SignKeyAny(jwks, algorithm) ==
    LET hit == {i \in 1..Len(jwks) : jwks[i].alg = algorithm}
    IN  IF jwks = <<>> THEN NoKey
        ELSE IF hit = {} THEN jwks[1] ELSE jwks[Min(hit)]

SignKey(jwks, algorithm) ==
    LET hit == {i \in 1..Len(jwks) : jwks[i].alg = algorithm}
    IN  IF hit = {} THEN NoKey ELSE jwks[Min(hit)]

\* JWT.verify: jwks.find((key) => key.public), the first key in list order
\* (every key pair carries a public key)
VerifyKeyLast(jwks) == IF jwks = <<>> THEN NoKey ELSE jwks[Len(jwks)]

VerifyKey(jwks) == IF jwks = <<>> THEN NoKey ELSE jwks[1]

\* new jose.SignJWT(payload).setProtectedHeader({ alg, typ, kid: "sst" })
\*   .sign(key.private): jose refuses a private key that is not of the
\* header's algorithm
SignJWT(payload, key, algorithm) ==
    IF key.material = algorithm /\ algorithm = ES256
    THEN [state |-> "signed", alg |-> algorithm, typ |-> "JWT", kid |-> "sst",
          signer |-> key.id, payload |-> payload]
    ELSE [state |-> "error"]

\* jose.jwtVerify(token, key.public, options): the signature was made with
\* the private key of this public key, and the claims the options name match
jwtVerify(tok, key, options) ==
    /\ tok.signer = key.id
    /\ tok.alg = key.material
    /\ \/ options.audience = NoOption
       \/ "aud" \in DOMAIN tok.payload /\ tok.payload.aud = options.audience
    /\ \/ options.issuer = NoOption
       \/ "iss" \in DOMAIN tok.payload /\ tok.payload.iss = options.issuer

VerifyOptions ==
    {[audience |-> PayloadAud, issuer |-> PayloadIss],
     [audience |-> NoOption, issuer |-> NoOption],
     [audience |-> "other", issuer |-> PayloadIss],
     [audience |-> PayloadAud, issuer |-> "https://example.org"]}

\* ------------------------------------------------------------------- Init
RecordChoices == [prefix : Prefix, created : 1..MaxCreated, expired : BOOLEAN]

InitStores ==
    UNION {{[i \in 1..n |->
                [prefix |-> f[i].prefix, id |-> i, created |-> f[i].created,
                 alg |-> AlgOf(f[i].prefix), expired |-> f[i].expired]]
            : f \in [1..n -> RecordChoices]} : n \in 0..MaxInit}

Init ==
    /\ storage \in InitStores
    /\ clock = MaxCreated
    /\ nextId = MaxInit + 1
    /\ pc = [c \in Callers |-> "idle"]
    /\ prefix = [c \in Callers |-> Signing]
    /\ cursor = [c \in Callers |-> NoCursor]
    /\ files = [c \in Callers |-> <<>>]
    /\ results = [c \in Callers |-> <<>>]
    /\ returned = [c \in Callers |-> <<>>]
    /\ before = [c \in Callers |-> <<>>]
    /\ sets = [c \in Callers |-> 0]
    /\ reruns = [c \in Callers |-> 0]
    /\ token = NoToken
    /\ signedWith = <<>>
    /\ lastVerify = NoVerify
    /\ previous = NoCall
    /\ written = FALSE
    /\ replica = <<>>
    /\ jwt = [class |-> "JWT", payload |-> TestPayload]
    /\ last = NoResult

\* ---------------------------------------------------------------- actions
Quiet == \A c \in Callers : pc[c] \in {"idle", "done"}

\* a caller enters signingKeys(storage) or encryptionKeys(storage)
Enter(c, p) ==
    /\ pc[c] \in {"idle", "done"}
    /\ pc' = [pc EXCEPT ![c] = "list"]
    /\ prefix' = [prefix EXCEPT ![c] = p]
    /\ cursor' = [cursor EXCEPT ![c] = NoCursor]
    /\ files' = [files EXCEPT ![c] = <<>>]
    /\ results' = [results EXCEPT ![c] = <<>>]
    /\ returned' = [returned EXCEPT ![c] = <<>>]
    /\ before' = [before EXCEPT ![c] = storage]
    /\ sets' = [sets EXCEPT ![c] = 0]
    /\ reruns' = [reruns EXCEPT ![c] = 0]
    /\ signedWith' = <<>>
    /\ lastVerify' = NoVerify
    /\ UNCHANGED <<storage, clock, nextId, token, viewVars, jwtVars>>

signingKeys(c) == Enter(c, Signing)

encryptionKeys(c) == Enter(c, Encryption)

\* scan: the initial storage.list, answered from store; without a cursor the
\* generator returns the batch (a generator's return value is not iterated
\* by for await)
ScanFirstOn(c, store) ==
    /\ pc[c] = "list"
    /\ LET r == list(store, prefix[c], NoCursor)
       IN  /\ cursor' = [cursor EXCEPT ![c] = r.cursor]
           /\ pc' = [pc EXCEPT ![c] = IF r.cursor = NoCursor THEN "sort" ELSE "loop"]
    /\ UNCHANGED <<storage, clock, nextId, prefix, files, results,
                   returned, before, sets, reruns, tokenVars, viewVars, jwtVars>>

ScanFirst(c) == ScanFirstOn(c, storage)

\* scan: storage.list with the cursor, then yield result.files
ScanNextOn(c, store) ==
    /\ pc[c] = "loop"
    /\ LET r == list(store, prefix[c], cursor[c])
       IN  /\ files' = [files EXCEPT ![c] = r.files]
           /\ cursor' = [cursor EXCEPT ![c] = r.cursor]
    /\ pc' = [pc EXCEPT ![c] = "body"]
    /\ UNCHANGED <<storage, clock, nextId, prefix, results,
                   returned, before, sets, reruns, tokenVars, viewVars, jwtVars>>

ScanNext(c) == ScanNextOn(c, storage)

\* JSON.parse and importKeyPair reject a record whose algorithm jose does
\* not know
Malformed(file) == file # NoFile /\ file.alg \notin Algoritm

\* the for await body without its `if (!file) continue`
ConsumeNoCheck(c) ==
    /\ pc[c] = "body"
    /\ LET file == IF files[c] = <<>> THEN NoFile ELSE get(storage, files[c][1])
           throws == (files[c] # <<>> /\ file = NoFile) \/ Malformed(file)
       IN  /\ results' = [results EXCEPT ![c] =
                              IF throws THEN <<>>
                              ELSE IF file = NoFile THEN @
                              ELSE Append(@, importKeyPair(file))]
           /\ pc' = [pc EXCEPT ![c] = IF throws THEN "failed"
                                      ELSE IF cursor[c] = NoCursor THEN "sort"
                                      ELSE "loop"]
    /\ files' = [files EXCEPT ![c] = <<>>]
    /\ UNCHANGED <<storage, clock, nextId, prefix, cursor,
                   returned, before, sets, reruns, tokenVars, viewVars, jwtVars>>

\* the for await body on the yielded batch, then the generator resumes; an
\* absent file is skipped, a record that cannot be imported rejects the call
ConsumeOn(c, store) ==
    /\ pc[c] = "body"
    /\ LET file == IF files[c] = <<>> THEN NoFile ELSE get(store, files[c][1])
       IN  /\ results' = [results EXCEPT ![c] =
                              IF file = NoFile THEN @
                              ELSE IF Malformed(file) THEN <<>>
                              ELSE Append(@, importKeyPair(file))]
           /\ pc' = [pc EXCEPT ![c] = IF Malformed(file) THEN "failed"
                                      ELSE IF cursor[c] = NoCursor THEN "sort"
                                      ELSE "loop"]
    /\ files' = [files EXCEPT ![c] = <<>>]
    /\ UNCHANGED <<storage, clock, nextId, prefix, cursor,
                   returned, before, sets, reruns, tokenVars, viewVars, jwtVars>>

Consume(c) == ConsumeOn(c, storage)

\* sort, then return the results when one of them is not expired
Return(c) ==
    /\ pc[c] = "sort"
    /\ HasValid(SortByCreated(results[c]))
    /\ returned' = [returned EXCEPT ![c] = SortByCreated(results[c])]
    /\ results' = [results EXCEPT ![c] = <<>>]
    /\ pc' = [pc EXCEPT ![c] = "done"]
    /\ UNCHANGED <<storage, clock, nextId, prefix, cursor, files,
                   before, sets, reruns, tokenVars, viewVars, jwtVars>>

\* otherwise generateKeyPair (Date.now() has not gone back since it was last
\* read), storeKeyPair, and run the operation again
Generate(c) ==
    /\ pc[c] = "sort"
    /\ ~HasValid(SortByCreated(results[c]))
    /\ Len(storage) < MaxStore
    /\ nextId <= MaxInit + MaxStore
    /\ \E now \in clock..MaxTime, pos \in Places(storage) :
          /\ clock' = now
          /\ storage' = set(storage,
                            FileOf(prefix[c],
                                   generateKeyPair(AlgOf(prefix[c]), nextId, now)),
                            pos)
    /\ nextId' = nextId + 1
    /\ sets' = [sets EXCEPT ![c] = @ + 1]
    /\ reruns' = [reruns EXCEPT ![c] = @ + 1]
    /\ results' = [results EXCEPT ![c] = <<>>]
    /\ cursor' = [cursor EXCEPT ![c] = NoCursor]
    /\ pc' = [pc EXCEPT ![c] = "list"]
    /\ UNCHANGED <<prefix, files, returned, before, tokenVars, viewVars, jwtVars>>

\* JWT.sign(jwt, algorithm, keys) with the keys the caller's call returned
Sign(c, algorithm) ==
    /\ pc[c] = "done"
    /\ LET key == SignKey(returned[c], algorithm)
       IN  token' = IF key = NoKey THEN [state |-> "error"]
                    ELSE SignJWT(jwt.payload, key, algorithm)
    /\ signedWith' = returned[c]
    /\ lastVerify' = NoVerify
    /\ UNCHANGED <<keyVars, viewVars, jwtVars>>

\* JWT.verify(token, keys, options) with the keys the caller's call returned
Verify(c, options) ==
    /\ pc[c] = "done"
    /\ token.state = "signed"
    /\ LET key == VerifyKey(returned[c])
       IN  lastVerify' =
              [state |-> IF key = NoKey THEN "error"
                         ELSE IF jwtVerify(token, key, options) THEN "verified"
                         ELSE "rejected",
               options |-> options]
    /\ UNCHANGED <<keyVars, token, signedWith, viewVars, jwtVars>>

\* a stored record is marked expired (rotation, done outside this library)
Expire(i) ==
    /\ i \in 1..Len(storage)
    /\ ~storage[i].expired
    /\ storage' = [storage EXCEPT ![i].expired = TRUE]
    /\ UNCHANGED <<clock, nextId, callVars, tokenVars, viewVars, jwtVars>>

\* the program with one caller: a call runs to its end before the next one
\* starts, and nothing else touches the storage while it runs
Main == "c1"

Next ==
    \/ Quiet /\ signingKeys(Main)
    \/ Quiet /\ encryptionKeys(Main)
    \/ ScanFirst(Main)
    \/ ScanNext(Main)
    \/ Consume(Main)
    \/ Return(Main)
    \/ Generate(Main)
    \/ \E algorithm \in Algoritm : Sign(Main, algorithm)
    \/ \E options \in VerifyOptions : Verify(Main, options)
    \/ \E i \in 1..Len(storage) : Quiet /\ Expire(i)

Spec == Init /\ [][Next]_vars

\* ------------------------------------------- successive signingKeys calls
\* the caller calls signingKeys(storage) again: it still holds the token it
\* signed, and what its call before this one returned is remembered unless
\* another writer changed the storage since
signingKeysAgain(c) ==
    /\ pc[c] \in {"idle", "done"}
    /\ previous' = IF pc[c] = "done" /\ ~written
                   THEN [keys |-> returned[c]]
                   ELSE NoCall
    /\ written' = FALSE
    /\ pc' = [pc EXCEPT ![c] = "list"]
    /\ prefix' = [prefix EXCEPT ![c] = Signing]
    /\ cursor' = [cursor EXCEPT ![c] = NoCursor]
    /\ files' = [files EXCEPT ![c] = <<>>]
    /\ results' = [results EXCEPT ![c] = <<>>]
    /\ returned' = [returned EXCEPT ![c] = <<>>]
    /\ before' = [before EXCEPT ![c] = storage]
    /\ sets' = [sets EXCEPT ![c] = 0]
    /\ reruns' = [reruns EXCEPT ![c] = 0]
    /\ lastVerify' = NoVerify
    /\ UNCHANGED <<storage, clock, nextId, token, signedWith, replica, jwtVars>>

\* another writer marks a stored record expired between two calls
ExpireBetween(i) ==
    /\ i \in 1..Len(storage)
    /\ ~storage[i].expired
    /\ storage' = [storage EXCEPT ![i].expired = TRUE]
    /\ written' = TRUE
    /\ UNCHANGED <<clock, nextId, callVars, tokenVars, previous, replica, jwtVars>>

NextView ==
    \/ Quiet /\ signingKeysAgain(Main)
    \/ ScanFirst(Main)
    \/ ScanNext(Main)
    \/ Consume(Main)
    \/ Return(Main)
    \/ Generate(Main)
    \/ Sign(Main, ES256)
    \/ \E options \in VerifyOptions : Verify(Main, options)
    \/ \E i \in 1..Len(storage) : Quiet /\ ExpireBetween(i)

SpecView == Init /\ [][NextView]_vars

\* ------------------------------------------------------ concurrent calls
\* two callers, each calling signingKeys or encryptionKeys once: every await
\* of a call (storage.list, storage.get, storage.set) is a point where the
\* other call may run
NextRace ==
    \E c \in Callers :
        \/ pc[c] = "idle" /\ signingKeys(c)
        \/ pc[c] = "idle" /\ encryptionKeys(c)
        \/ ScanFirst(c)
        \/ ScanNext(c)
        \/ Consume(c)
        \/ Return(c)
        \/ Generate(c)

SpecRace == Init /\ [][NextRace]_vars

\* ------------------------------------------------- one call, run to its end
\* one call of signingKeys or encryptionKeys with nothing else touching the
\* storage: every step of the call awaits a promise the storage or the crypto
\* provider settles, so a step that can be taken is taken
CallStep(c) ==
    \/ ScanFirst(c)
    \/ ScanNext(c)
    \/ Consume(c)
    \/ Return(c)
    \/ Generate(c)

NextTerm ==
    \/ pc[Main] = "idle" /\ signingKeys(Main)
    \/ pc[Main] = "idle" /\ encryptionKeys(Main)
    \/ CallStep(Main)

SpecTerm == Init /\ [][NextTerm]_vars /\ WF_vars(CallStep(Main))

\* ------------------------------------------- records removed or damaged
\* another process removes a stored record between a list page of the
\* running call and its storage.get
Delete(i) ==
    /\ i \in 1..Len(storage)
    /\ storage' = SubSeq(storage, 1, i - 1) \o SubSeq(storage, i + 1, Len(storage))
    /\ UNCHANGED <<clock, nextId, callVars, tokenVars, viewVars, jwtVars>>

\* a stored record is one that cannot be imported, before the first call
Unknown == "none"

Damage(i) ==
    /\ i \in 1..Len(storage)
    /\ storage[i].alg \in Algoritm
    /\ storage' = [storage EXCEPT ![i].alg = Unknown]
    /\ UNCHANGED <<clock, nextId, callVars, tokenVars, viewVars, jwtVars>>

NextFaults ==
    \/ Quiet /\ signingKeys(Main)
    \/ CallStep(Main)
    \/ \E i \in 1..Len(storage) : pc[Main] = "body" /\ Delete(i)
    \/ \E i \in 1..Len(storage) : pc[Main] = "idle" /\ Damage(i)

SpecFaults == Init /\ [][NextFaults]_vars

\* ------------------------------------- a storage whose writes show late
\* storage.list and storage.get answer from a replica that lags the writes;
\* what storage.set wrote becomes visible when the replica catches up
Sync ==
    /\ replica # storage
    /\ replica' = storage
    /\ UNCHANGED <<keyVars, tokenVars, previous, written, jwtVars>>

NextStale ==
    \/ Quiet /\ signingKeys(Main)
    \/ Quiet /\ encryptionKeys(Main)
    \/ ScanFirstOn(Main, replica)
    \/ ScanNextOn(Main, replica)
    \/ ConsumeOn(Main, replica)
    \/ Return(Main)
    \/ Generate(Main)
    \/ Sync

SpecStale == Init /\ [][NextStale]_vars

\* --------------------------------------------- JWT.sign on any key list
\* jwks: Array<{ private, alg }>, the alg a key pair is labelled with and
\* the algorithm its private key is of chosen independently
KeyLists ==
    UNION {{[i \in 1..n |-> [id |-> i, alg |-> f[i].alg, material |-> f[i].material,
                             kid |-> i, use |-> "sig"]]
            : f \in [1..n -> [alg : Algoritm, material : Algoritm]]}
           : n \in 0..MaxKeys}

InitSign ==
    /\ storage = <<>>
    /\ clock = MaxCreated
    /\ nextId = MaxInit + 1
    /\ pc = [c \in Callers |-> IF c = Main THEN "done" ELSE "idle"]
    /\ prefix = [c \in Callers |-> Signing]
    /\ cursor = [c \in Callers |-> NoCursor]
    /\ files = [c \in Callers |-> <<>>]
    /\ results = [c \in Callers |-> <<>>]
    /\ \E jwks \in KeyLists :
          returned = [c \in Callers |-> IF c = Main THEN jwks ELSE <<>>]
    /\ before = [c \in Callers |-> <<>>]
    /\ sets = [c \in Callers |-> 0]
    /\ reruns = [c \in Callers |-> 0]
    /\ token = NoToken
    /\ signedWith = <<>>
    /\ lastVerify = NoVerify
    /\ previous = NoCall
    /\ written = FALSE
    /\ replica = <<>>
    /\ jwt = [class |-> "JWT", payload |-> TestPayload]
    /\ last = NoResult

\* jose.exportJWK(publicKey): the public parameters of the key, which depend
\* on its kind; the private key is a field of the key pair, not of its jwk
Undefined == [undefined |-> TRUE]

Param(name, id) == [param |-> name, of |-> id]

exportJWK(material, id) ==
    IF material = ES256
    THEN [kty |-> "EC", crv |-> "P-256", x |-> Param("x", id), y |-> Param("y", id)]
    ELSE [kty |-> "RSA", n |-> Param("n", id), e |-> "AQAB"]

\* the jwk of an imported key pair: the exported parameters, kid and use
jwk(key) ==
    LET pub == exportJWK(key.material, key.id)
    IN  [f \in DOMAIN pub \cup {"kid", "use"} |->
            IF f = "kid" THEN key.kid ELSE IF f = "use" THEN key.use ELSE pub[f]]

\* reading a property of an object
Member(obj, f) == IF f \in DOMAIN obj THEN obj[f] ELSE Undefined

toJSONWhole(keys) == [keys |-> [i \in 1..Len(keys) |-> jwk(keys[i])]]

toJSON(keys) ==
    [keys |-> [i \in 1..Len(keys) |->
                  [crv |-> Member(jwk(keys[i]), "crv"),
                   kty |-> Member(jwk(keys[i]), "kty"),
                   x |-> Member(jwk(keys[i]), "x"),
                   y |-> Member(jwk(keys[i]), "y"),
                   kid |-> Member(jwk(keys[i]), "kid")]]]

\* JWK.toJSON(keys) with the keys the caller holds
ToJSON(c) ==
    /\ pc[c] = "done"
    /\ last' = [op |-> "toJSON", value |-> toJSON(returned[c])]
    /\ UNCHANGED <<keyVars, tokenVars, viewVars, jwt>>

NextSign ==
    \/ \E algorithm \in Algoritm : Sign(Main, algorithm)
    \/ ToJSON(Main)

SpecSign == InitSign /\ [][NextSign]_vars

\* -------------------------------------------------------- the JWT instance
\* JWT and the subclass of the tests, which overrides the issuer getter and
\* adds the userId getter
Classes == {"JWT", "CustomJWT"}

\* the keys of a payload object, and the values they take
PayloadKeys == {"iss", "exp", "uid", "issuer"}
Strings == {"https://example.com", "https://example.org"}

ValuesFor(prop) == IF prop \in {"exp", "expiresIn"} THEN 0..MaxExp ELSE Strings

Payloads ==
    {[k \in D |-> IF k = "exp" THEN e ELSE str[k]] :
        D \in SUBSET PayloadKeys, e \in 0..MaxExp,
        str \in [PayloadKeys \ {"exp"} -> Strings]}

\* what an operation gives back: null, a value, or a thrown error
Null == [null |-> TRUE]
Just(x) == [null |-> FALSE, value |-> x]
Throws == [throws |-> TRUE]

\* parser.has(key) on the ObjectParser that wraps the payload object
has(payload, key) == key \in DOMAIN payload

\* payload[key] = value
Put(payload, key, value) ==
    [k \in DOMAIN payload \cup {key} |-> IF k = key THEN value ELSE payload[k]]

\* get expiresIn()
expiresIn(payload) ==
    IF has(payload, "exp") THEN Just(payload.exp) ELSE Null

\* get expiresAt(): if (this.expiresIn) new Date(Date.now() + this.expiresIn),
\* where null and 0 are falsy
expiresAtAlways(payload, now) ==
    Just(now + (IF has(payload, "exp") THEN payload.exp ELSE 0))

expiresAt(payload, now) ==
    IF expiresIn(payload) # Null /\ expiresIn(payload).value # 0
    THEN Just(now + expiresIn(payload).value)
    ELSE Null

\* get expired(): this.expiresAt is read at now, new Date() at later
expired(payload, now, later) ==
    IF expiresAt(payload, now) = Null THEN Just(FALSE)
    ELSE Just(expiresAt(payload, now).value < later)

\* get issuer()
issuer(payload) ==
    IF has(payload, "iss") THEN Just(payload.iss) ELSE Null

\* CustomJWT: this.parser.string(key), which throws on a missing key
parserString(payload, key) ==
    IF has(payload, key) THEN Just(payload[key]) ELSE Throws

\* prop in self: the accessors an instance of the class has
Members(class) ==
    {"issuer", "expiresIn", "expiresAt", "expired"}
        \cup (IF class = "CustomJWT" THEN {"userId"} ELSE {})

\* the accessors that have a setter: CustomJWT overrides issuer with a
\* getter only
Setters(class) ==
    IF class = "CustomJWT" THEN {"expiresIn"} ELSE {"issuer", "expiresIn"}

\* the payload key a setter writes
ClaimOf(prop) ==
    CASE prop = "issuer" -> "iss"
      [] prop = "subject" -> "sub"
      [] prop = "id" -> "jti"
      [] prop = "audience" -> "aud"
      [] prop = "issuedAt" -> "iat"
      [] prop = "notBefore" -> "nbf"
      [] OTHER -> "exp"

\* the Proxy's get trap
ProxyGetMembersOnly(inst, prop, now, later) ==
    IF prop = "issuer" THEN issuer(inst.payload)
    ELSE IF prop = "expiresIn" THEN expiresIn(inst.payload)
    ELSE IF prop = "expiresAt" THEN expiresAt(inst.payload, now)
    ELSE IF prop = "expired" THEN expired(inst.payload, now, later)
    ELSE IF prop = "userId" /\ inst.class = "CustomJWT"
         THEN parserString(inst.payload, "uid")
    ELSE Null

ProxyGet(inst, prop, now, later) ==
    IF prop \in Members(inst.class)
    THEN CASE prop = "issuer" ->
                 IF inst.class = "CustomJWT" THEN parserString(inst.payload, "iss")
                 ELSE issuer(inst.payload)
           [] prop = "userId" -> parserString(inst.payload, "uid")
           [] prop = "expiresIn" -> expiresIn(inst.payload)
           [] prop = "expiresAt" -> expiresAt(inst.payload, now)
           [] prop = "expired" -> expired(inst.payload, now, later)
    ELSE IF has(inst.payload, prop) THEN Just(inst.payload[prop])
    ELSE Null

\* the Proxy's set trap: a member goes to its setter (a TypeError when it
\* has none), any other name into the payload
CanSet(inst, prop) ==
    prop \in Members(inst.class) => prop \in Setters(inst.class)

ProxySetPassthrough(inst, prop, value) ==
    [inst EXCEPT !.payload = Put(@, prop, value)]

ProxySet(inst, prop, value) ==
    IF prop \in Members(inst.class)
    THEN IF prop \in Setters(inst.class)
         THEN [inst EXCEPT !.payload = Put(@, ClaimOf(prop), value)]
         ELSE inst
    ELSE [inst EXCEPT !.payload = Put(@, prop, value)]

\* the key pair of the test "JWT.verify from local":
\* importKeyPair(generateKeyPair(ES256))
LocalKeys ==
    <<importKeyPair(FileOf(Signing, generateKeyPair(ES256, MaxInit + 1, MaxCreated)))>>

\* JWT.decode: new this(jose.decodeJwt(token))
decodeBase(class, tok) == [class |-> "JWT", payload |-> tok.payload]

decode(class, tok) == [class |-> class, payload |-> tok.payload]

\* JWT.verify: new this(result.payload) when jose accepts the token
verify(class, tok, jwks, options) ==
    LET key == VerifyKey(jwks)
    IN  IF key = NoKey THEN Throws
        ELSE IF jwtVerify(tok, key, options) THEN decode(class, tok)
        ELSE Throws

ReadProps == Members("CustomJWT") \cup PayloadKeys
WriteProps == {"issuer", "expiresIn", "iss", "exp", "uid"}
TimedProps == {"expiresAt", "expired"}

InitJWT ==
    /\ storage = <<>>
    /\ clock = 0
    /\ nextId = MaxInit + 1
    /\ pc = [c \in Callers |-> "idle"]
    /\ prefix = [c \in Callers |-> Signing]
    /\ cursor = [c \in Callers |-> NoCursor]
    /\ files = [c \in Callers |-> <<>>]
    /\ results = [c \in Callers |-> <<>>]
    /\ returned = [c \in Callers |-> <<>>]
    /\ before = [c \in Callers |-> <<>>]
    /\ sets = [c \in Callers |-> 0]
    /\ reruns = [c \in Callers |-> 0]
    /\ token = NoToken
    /\ signedWith = <<>>
    /\ lastVerify = NoVerify
    /\ previous = NoCall
    /\ written = FALSE
    /\ replica = <<>>
    /\ jwt \in [class : Classes, payload : Payloads]
    /\ last = NoResult

\* reading jwt[prop]: the timed accessors read Date.now() (now) and
\* new Date() (later), and the clock does not go back
GetProp(prop) ==
    /\ \E now \in clock..MaxTime, later \in clock..MaxTime :
          /\ now <= later
          /\ prop \notin TimedProps => now = clock
          /\ prop # "expired" => later = now
          /\ last' = [op |-> "get", prop |-> prop, now |-> now, later |-> later,
                      value |-> ProxyGet(jwt, prop, now, later)]
          /\ clock' = later
    /\ UNCHANGED <<storage, nextId, callVars, tokenVars, viewVars, jwt>>

\* jwt[prop] = value
SetProp(prop, value) ==
    /\ jwt' = ProxySet(jwt, prop, value)
    /\ last' = [op |-> "set", prop |-> prop, value |-> value,
                ok |-> CanSet(jwt, prop)]
    /\ UNCHANGED <<keyVars, tokenVars, viewVars>>

\* jwt.sign(ES256, keys)
SignInstance ==
    /\ LET key == SignKey(LocalKeys, ES256)
       IN  last' = [op |-> "sign",
                    token |-> IF key = NoKey THEN [state |-> "error"]
                              ELSE SignJWT(jwt.payload, key, ES256)]
    /\ UNCHANGED <<keyVars, tokenVars, viewVars, jwt>>

\* class.decode(token) on the token just signed
Decode(class) ==
    /\ last.op = "sign"
    /\ last.token.state = "signed"
    /\ jwt' = decode(class, last.token)
    /\ last' = [op |-> "decode", class |-> class, token |-> last.token]
    /\ UNCHANGED <<keyVars, tokenVars, viewVars>>

\* class.verify(token, keys, options) on the token just signed
VerifyInstance(class, options) ==
    /\ last.op = "sign"
    /\ last.token.state = "signed"
    /\ LET made == verify(class, last.token, LocalKeys, options)
       IN  /\ jwt' = IF made = Throws THEN jwt ELSE made
           /\ last' = [op |-> "verify", class |-> class, token |-> last.token,
                       ok |-> made # Throws]
    /\ UNCHANGED <<keyVars, tokenVars, viewVars>>

NextJWT ==
    \/ \E prop \in ReadProps : GetProp(prop)
    \/ \E prop \in WriteProps : \E value \in ValuesFor(prop) : SetProp(prop, value)
    \/ SignInstance
    \/ \E class \in Classes : Decode(class)
    \/ \E class \in Classes : \E options \in VerifyOptions :
          VerifyInstance(class, options)

SpecJWT == InitJWT /\ [][NextJWT]_vars

\* ------------------------------------------------ the registered claims
\* the payload object with the type of each value: a number, a string, or
\* undefined under a key the object has
Num(n) == [type |-> "number", value |-> n]
Str(x) == [type |-> "string", value |-> x]

typeof(v) == IF v = Undefined THEN "undefined" ELSE v.type

\* parser.number(key) and parser.string(key): the value, or an error when it
\* is of another type
number(obj, key) ==
    IF has(obj, key) /\ typeof(obj[key]) = "number" THEN Just(obj[key].value)
    ELSE Throws

string(obj, key) ==
    IF has(obj, key) /\ typeof(obj[key]) = "string" THEN Just(obj[key].value)
    ELSE Throws

\* a Date, by the milliseconds since the epoch it holds
NewDate(ms) == [time |-> ms]
getTime(date) == date.time

Second == 1000

\* get issuer(), get id(), get subject()
stringClaim(obj, key) == IF has(obj, key) THEN string(obj, key) ELSE Null

\* get expiresIn()
numberClaim(obj, key) == IF has(obj, key) THEN number(obj, key) ELSE Null

\* get issuedAt(), get notBefore(): new Date(this.parser.number(key))
dateClaim(obj, key) ==
    IF ~has(obj, key) THEN Null
    ELSE IF number(obj, key) = Throws THEN Throws
    ELSE Just(NewDate(number(obj, key).value))

\* get audience()
audience(obj) ==
    IF ~has(obj, "aud") THEN Null
    ELSE IF typeof(obj.aud) = "string" THEN Just(obj.aud.value)
    ELSE Null

Registered ==
    {"issuer", "subject", "id", "audience", "expiresIn", "issuedAt", "notBefore"}

DateProps == {"issuedAt", "notBefore"}

Getter(obj, prop) ==
    CASE prop \in {"issuer", "subject", "id"} -> stringClaim(obj, ClaimOf(prop))
      [] prop = "audience" -> audience(obj)
      [] prop = "expiresIn" -> numberClaim(obj, "exp")
      [] prop \in DateProps -> dateClaim(obj, ClaimOf(prop))

\* set issuedAt(value), set notBefore(value)
setDateMillis(obj, key, value) ==
    Put(obj, key, IF value = Null THEN Undefined ELSE Num(getTime(value.value)))

setDate(obj, key, value) ==
    Put(obj, key, IF value = Null THEN Undefined
                  ELSE Num(getTime(value.value) \div Second))

\* the other setters: this.payload[key] = value ?? undefined
setValue(obj, key, value) ==
    Put(obj, key, IF value = Null THEN Undefined
                  ELSE IF key = "exp" THEN Num(value.value)
                  ELSE Str(value.value))

Setter(obj, prop, value) ==
    IF prop \in DateProps THEN setDate(obj, ClaimOf(prop), value)
    ELSE setValue(obj, ClaimOf(prop), value)

\* the dates and values handed to the setters, null among them
Dates == {NewDate(sec * Second + ms) : sec \in {0, MaxSec}, ms \in {0, Second - 1}}

ArgsFor(prop) ==
    {Null} \cup (IF prop \in DateProps THEN {Just(d) : d \in Dates}
                 ELSE IF prop = "expiresIn" THEN {Just(MaxExp)}
                 ELSE {Just(PayloadIss)})

\* new JWT() and new JWT(payload) with the payload of the tests
FullPayload ==
    [iss |-> Str(PayloadIss), sub |-> Str(PayloadIss), jti |-> Str(PayloadIss),
     aud |-> Str(PayloadAud), exp |-> Num(MaxExp), iat |-> Num(MaxSec),
     nbf |-> Num(MaxSec)]

InitClaims ==
    /\ storage = <<>>
    /\ clock = 0
    /\ nextId = MaxInit + 1
    /\ pc = [c \in Callers |-> "idle"]
    /\ prefix = [c \in Callers |-> Signing]
    /\ cursor = [c \in Callers |-> NoCursor]
    /\ files = [c \in Callers |-> <<>>]
    /\ results = [c \in Callers |-> <<>>]
    /\ returned = [c \in Callers |-> <<>>]
    /\ before = [c \in Callers |-> <<>>]
    /\ sets = [c \in Callers |-> 0]
    /\ reruns = [c \in Callers |-> 0]
    /\ token = NoToken
    /\ signedWith = <<>>
    /\ lastVerify = NoVerify
    /\ previous = NoCall
    /\ written = FALSE
    /\ replica = <<>>
    /\ jwt \in {[class |-> "JWT", payload |-> obj] : obj \in {<<>>, FullPayload}}
    /\ last = NoResult

\* reading jwt[prop] for a registered claim; what was assigned to the same
\* accessor just before, if anything, is kept with the result
ReadClaim(prop) ==
    /\ last' = [op |-> "get", prop |-> prop, value |-> Getter(jwt.payload, prop),
                wrote |-> IF last.op = "set" /\ last.prop = prop
                          THEN [value |-> last.value] ELSE NoCall]
    /\ UNCHANGED <<keyVars, tokenVars, viewVars, jwt>>

\* jwt[prop] = value for a registered claim
WriteClaim(prop, value) ==
    /\ jwt' = [jwt EXCEPT !.payload = Setter(@, prop, value)]
    /\ last' = [op |-> "set", prop |-> prop, value |-> value]
    /\ UNCHANGED <<keyVars, tokenVars, viewVars>>

NextClaims ==
    \/ \E prop \in Registered : ReadClaim(prop)
    \/ \E prop \in Registered : \E value \in ArgsFor(prop) : WriteClaim(prop, value)

SpecClaims == InitClaims /\ [][NextClaims]_vars

\* ----------------------------------------------------------- the claims
Done == pc[Main] = "done"

\* the records a store holds under a prefix, in listing order
Under(store, p) == SelectSeq(store, LAMBDA rec : rec.prefix = p)

Ids(seq) == {seq[i].id : i \in 1..Len(seq)}

MatchingOptions == [audience |-> PayloadAud, issuer |-> PayloadIss]

\* C1: a call on a store with no record under its prefix returns exactly one
\* key pair, not expired, and storage.get of '<prefix>:<id>' then finds the
\* record with that id.
C1_EmptyStoreOneKey ==
    (Done /\ Under(before[Main], prefix[Main]) = <<>>) =>
        /\ Len(returned[Main]) = 1
        /\ ~returned[Main][1].expired
        /\ get(storage, <<prefix[Main], returned[Main][1].id>>) # NoFile
        /\ get(storage, <<prefix[Main], returned[Main][1].id>>).id = returned[Main][1].id

C1_Witness ==
    /\ Done
    /\ prefix[Main] = Encryption
    /\ Under(before[Main], Encryption) = <<>>
    /\ before[Main] # <<>>
    /\ Len(returned[Main]) = 1

\* C2: when the storage already holds a non-expired record under the prefix
\* (also when it holds exactly one record), the call makes no storage.set.
C2_ValidKeyNoWrite ==
    (Done /\ \E i \in 1..Len(before[Main]) :
                /\ before[Main][i].prefix = prefix[Main]
                /\ ~before[Main][i].expired) =>
        sets[Main] = 0

\* C3: a call that finds no valid key makes exactly one storage.set and
\* returns after exactly one re-run.
C3_OneWriteOneRerun ==
    (Done /\ reruns[Main] > 0) => (sets[Main] = 1 /\ reruns[Main] = 1)

\* C4: on a store holding N >= 1 records under the prefix, with distinct
\* created and none expired, the call returns exactly those N key pairs,
\* sorted descending by created.
C4_ReturnsAllStored ==
    LET stored == Under(before[Main], prefix[Main])
    IN  (/\ Done
         /\ stored # <<>>
         /\ \A i \in 1..Len(stored) : ~stored[i].expired
         /\ \A i, j \in 1..Len(stored) :
               i # j => stored[i].created # stored[j].created) =>
            /\ Len(returned[Main]) = Len(stored)
            /\ Ids(returned[Main]) = Ids(stored)
            /\ \A i \in 1..(Len(returned[Main]) - 1) :
                  returned[Main][i].created >= returned[Main][i + 1].created

\* C5: whenever a call returns, the result is not empty and holds a key pair
\* that is not expired.
C5_ReturnsValidKey ==
    Done => /\ returned[Main] # <<>>
            /\ \E i \in 1..Len(returned[Main]) : ~returned[Main][i].expired

C5_Witness ==
    /\ Done
    /\ Under(before[Main], prefix[Main]) # <<>>
    /\ \A i \in 1..Len(before[Main]) : before[Main][i].expired
    /\ \E i \in 1..Len(returned[Main]) : returned[Main][i].expired

\* C6: every returned sequence is ordered by created, descending, also when
\* it was produced after a key generation.
C6_SortedDescending ==
    Done => \A i \in 1..(Len(returned[Main]) - 1) :
               returned[Main][i].created >= returned[Main][i + 1].created

C6_Witness ==
    /\ Done
    /\ sets[Main] > 0
    /\ Len(returned[Main]) >= 2
    /\ returned[Main][1].created > returned[Main][2].created
    /\ returned[Main][1].id > returned[Main][2].id

\* C7: on a store where every record under the prefix is expired (N >= 1),
\* the call generates exactly one record and returns the new key pair, not
\* expired, as the first element.
C7_AllExpiredOneNewKey ==
    LET stored == Under(before[Main], prefix[Main])
    IN  (/\ Done
         /\ stored # <<>>
         /\ \A i \in 1..Len(stored) : stored[i].expired) =>
            /\ sets[Main] = 1
            /\ returned[Main][1].id \notin Ids(stored)
            /\ ~returned[Main][1].expired

\* C8: a token signed with key pair K still verifies with signingKeys(storage)
\* while K's record is in the storage, also after a newer key record was
\* added.
C8_OldTokenStillVerifies ==
    (/\ Done
     /\ prefix[Main] = Signing
     /\ lastVerify.state # "none"
     /\ lastVerify.options = MatchingOptions
     /\ get(storage, <<Signing, token.signer>>) # NoFile
     /\ \E i \in 1..Len(storage) :
           /\ storage[i].prefix = Signing
           /\ storage[i].id > token.signer) =>
        lastVerify.state = "verified"

\* C9: JWT.sign with the list signingKeys returned signs with the newest
\* valid key: never with an expired key pair, and with no key pair older
\* than a valid one of the list.
C9_SignsWithNewestValid ==
    (token.state = "signed" /\ signedWith # <<>>) =>
        \E i \in 1..Len(signedWith) :
            /\ signedWith[i].id = token.signer
            /\ ~signedWith[i].expired
            /\ \A j \in 1..Len(signedWith) :
                  ~signedWith[j].expired =>
                      signedWith[j].created <= signedWith[i].created

\* C10: the token jwt.sign(ES256, keys) produces from the list signingKeys
\* returned is accepted by JWT.verify(token, keys, options) when
\* options.audience and options.issuer match the payload: both select the
\* same key pair of the list.
C10_SignVerifyRoundTrip ==
    (/\ Done
     /\ prefix[Main] = Signing
     /\ signedWith = returned[Main]
     /\ lastVerify.state # "none"
     /\ lastVerify.options = MatchingOptions) =>
        /\ lastVerify.state = "verified"
        /\ token.signer = VerifyKey(returned[Main]).id

C10_Witness ==
    /\ Done
    /\ prefix[Main] = Signing
    /\ signedWith = returned[Main]
    /\ Len(returned[Main]) >= 2
    /\ lastVerify.state = "verified"
    /\ lastVerify.options = MatchingOptions

\* C11: two successive signingKeys calls with no other writer in between
\* return the same key pairs in the same order, the second call makes no
\* storage.set, and a token signed with the first call's result verifies
\* with the second call's result.
C11_StableView ==
    (Done /\ previous # NoCall) =>
        /\ returned[Main] = previous.keys
        /\ sets[Main] = 0
        /\ (/\ token.state = "signed"
            /\ signedWith = previous.keys
            /\ lastVerify.state # "none"
            /\ lastVerify.options = MatchingOptions) =>
               lastVerify.state = "verified"

C11_Witness ==
    /\ Done
    /\ previous # NoCall
    /\ Len(previous.keys) >= 2
    /\ token.state = "signed"
    /\ signedWith = previous.keys
    /\ lastVerify.state = "verified"
    /\ lastVerify.options = MatchingOptions

\* the callers whose call is on prefix p
On(p) == {c \in Callers : pc[c] # "idle" /\ prefix[c] = p}

\* the records under prefix p that were generated since the program started
Made(p) ==
    {i \in 1..Len(storage) : storage[i].prefix = p /\ storage[i].id > MaxInit}

RECURSIVE SumSets(_)
SumSets(cs) ==
    IF cs = {} THEN 0
    ELSE LET c == CHOOSE x \in cs : TRUE IN sets[c] + SumSets(cs \ {c})

\* C12: two concurrent calls on the same prefix that both observe zero valid
\* keys each generate and persist their own key pair: nothing holds a
\* caller back once it saw no valid key, whatever the other caller stored
\* since, and every storage.set adds a record of its own, not expired.
C12_EachGeneratesItsOwn ==
    /\ \A p \in Prefix :
          /\ Cardinality(Made(p)) = SumSets(On(p))
          /\ \A i \in Made(p) : ~storage[i].expired
    /\ \A c \in Callers :
          (/\ pc[c] = "sort"
           /\ ~HasValid(SortByCreated(results[c]))
           /\ Len(storage) < MaxStore) => ENABLED Generate(c)

\* both callers saw no valid key on a prefix that started empty, both
\* stored a key, and both returned
C12_Witness ==
    /\ \A c \in Callers :
          /\ pc[c] = "done"
          /\ prefix[c] = Signing
          /\ Under(before[c], Signing) = <<>>
          /\ sets[c] >= 1
    /\ Cardinality(Made(Signing)) >= 2

Read(prop) == last.op = "get" /\ last.prop = prop

\* C14: for claims whose exp is a timestamp strictly in the past
\* (exp < now), the expired accessor returns true.
C14_PastExpIsExpired ==
    (/\ Read("expired")
     /\ has(jwt.payload, "exp")
     /\ jwt.payload.exp < last.now) =>
        last.value = Just(TRUE)

\* C15: for claims with no exp claim, expiresIn and expiresAt read as null
\* and expired reads as false, at every value of the current time.
C15_NoExpNeverExpires ==
    (last.op = "get" /\ ~has(jwt.payload, "exp")) =>
        /\ last.prop = "expiresIn" => last.value = Null
        /\ last.prop = "expiresAt" => last.value = Null
        /\ last.prop = "expired" => last.value = Just(FALSE)

C15_Witness ==
    /\ Read("expired")
    /\ ~has(jwt.payload, "exp")
    /\ last.now > 0
    /\ last.later > last.now
    /\ last.value = Just(FALSE)

\* C16: for claims with an exp claim, expiresAt is the instant exp itself
\* denotes, whatever the current time at which it is read.
C16_ExpiresAtIsExp ==
    (Read("expiresAt") /\ has(jwt.payload, "exp")) =>
        last.value = Just(jwt.payload.exp)

C19_SubclassReconstructed ==
    (last.op = "decode" \/ (last.op = "verify" /\ last.ok)) =>
        /\ jwt.class = last.class
        /\ jwt.payload = last.token.payload
        /\ (jwt.class = "CustomJWT" /\ has(jwt.payload, "uid")) =>
               ProxyGet(jwt, "userId", clock, clock) = Just(jwt.payload.uid)
        /\ (jwt.class = "CustomJWT" /\ has(jwt.payload, "iss")) =>
               ProxyGet(jwt, "issuer", clock, clock) = Just(jwt.payload.iss)

C19_Witness ==
    /\ last.op = "verify"
    /\ last.ok
    /\ last.class = "CustomJWT"
    /\ has(jwt.payload, "uid")
    /\ has(jwt.payload, "iss")

\* C20: every key pair encryptionKeys returns carries alg RSA-OAEP-512 and
\* a JWK without use "sig", every key pair signingKeys returns carries alg
\* ES256 and a JWK with use "sig", and in both the JWK's kid is the record
\* id.
C20_KeysCarryDeclaredAlg ==
    Done => \A i \in 1..Len(returned[Main]) :
               LET key == returned[Main][i]
               IN  /\ key.kid = key.id
                   /\ prefix[Main] = Signing =>
                          key.alg = ES256 /\ key.use = "sig"
                   /\ prefix[Main] = Encryption =>
                          key.alg = RSA_OAEP_512 /\ key.use # "sig"

\* C21: JWK.toJSON(keys) returns one entry per key pair of its input, in the
\* input's order, and each entry has the five fields crv, kty, x, y and kid
\* with the values of that pair's jwk, and no other field (no use, no
\* private parameter)
PublicFields == {"crv", "kty", "x", "y", "kid"}

C21_PublicFieldsOnly ==
    last.op = "toJSON" =>
        /\ DOMAIN last.value = {"keys"}
        /\ Len(last.value.keys) = Len(returned[Main])
        /\ \A i \in 1..Len(returned[Main]) :
              /\ DOMAIN last.value.keys[i] = PublicFields
              /\ \A f \in PublicFields :
                    last.value.keys[i][f] = Member(jwk(returned[Main][i]), f)

C21_Witness ==
    /\ last.op = "toJSON"
    /\ Len(returned[Main]) >= 2
    /\ returned[Main][1].material = RSA_OAEP_512
    /\ returned[Main][2].material = ES256

\* C22: scan yields every record stored under the prefix exactly once: when
\* the scan of a call has ended, the call has collected one key pair per
\* record under its prefix, the entry of the initial storage.list included
C22_ScanYieldsEveryRecord ==
    pc[Main] = "sort" =>
        /\ Ids(results[Main]) = Ids(Under(storage, prefix[Main]))
        /\ Len(results[Main]) = Len(Under(storage, prefix[Main]))

\* C23: when the re-scan does not observe the key that was just persisted
\* (no valid key among what it read), the call does not fail: however many
\* times it has re-run, it generates and persists another key and runs
\* again, and each repetition adds one more record to the storage
C23_RerunsWithoutBound ==
    /\ [](/\ pc[Main] # "failed"
          /\ (/\ pc[Main] = "sort"
               /\ ~HasValid(SortByCreated(results[Main]))
               /\ Len(storage) < MaxStore) => ENABLED Generate(Main))
    /\ [][Generate(Main) =>
              /\ Len(storage') = Len(storage) + 1
              /\ reruns'[Main] = reruns[Main] + 1
              /\ pc'[Main] = "list"]_vars

C23_Witness ==
    /\ reruns[Main] = MaxStore
    /\ Len(storage) = MaxStore
    /\ \A i \in 1..Len(storage) :
          storage[i].prefix = prefix[Main] /\ ~storage[i].expired
    /\ replica = <<>>

\* C24: with writes visible at once and a listing order that stays as it is
\* during a scan, every call that has started returns or fails: it does not
\* go on generating keys, also when each key it writes becomes the entry of
\* the first listing page
C24_CallTerminates == (pc[Main] = "list") ~> (pc[Main] \in {"done", "failed"})

C24_Witness ==
    /\ Done
    /\ sets[Main] > 1
    /\ storage[1].id > MaxInit
    /\ storage[1].prefix = prefix[Main]

\* C25: when storage.get returns nothing for an entry a list page returned
\* (the record was removed in between), the entry is skipped: the call does
\* not fail, nothing is added to its results (so nothing is counted as a
\* valid key), the storage is not written and the scan goes on with the
\* next page, or ends when there is none
Absent(c) == files[c] # <<>> /\ get(storage, files[c][1]) = NoFile

C25_AbsentFileSkipped ==
    [][(Absent(Main) /\ Consume(Main)) =>
          /\ results'[Main] = results[Main]
          /\ storage' = storage
          /\ pc'[Main] = IF cursor[Main] = NoCursor THEN "sort" ELSE "loop"]_vars

\* the record first listed when the call began is still there, so the entry
\* the cursor names came from a later page; it was consumed, it is gone and
\* nothing was collected
C25_Witness ==
    /\ pc[Main] = "loop"
    /\ reruns[Main] = 0
    /\ results[Main] = <<>>
    /\ get(storage, cursor[Main]) = NoFile
    /\ Under(storage, prefix[Main]) # <<>>
    /\ Under(before[Main], prefix[Main])[1] = Under(storage, prefix[Main])[1]

\* C26: a call that fails because a scanned record cannot be decoded has
\* returned nothing and has not generated or stored a key (no storage.set)
C26_DecodeFailureWritesNothing ==
    pc[Main] = "failed" =>
        /\ returned[Main] = <<>>
        /\ sets[Main] = 0
        /\ reruns[Main] = 0

\* C27: the calls only append: a step of signingKeys or encryptionKeys
\* leaves every stored record as it is (same key, id, created, expired), and
\* when it writes, it adds exactly one record, not expired, under an id no
\* stored record has
C27_AppendOnly ==
    [][/\ \A i \in 1..Len(storage) :
             \E j \in 1..Len(storage') : storage'[j] = storage[i]
       /\ storage' # storage =>
             /\ Len(storage') = Len(storage) + 1
             /\ \E j \in 1..Len(storage') :
                   /\ storage'[j].id \notin Ids(storage)
                   /\ ~storage'[j].expired]_vars

C27_Witness ==
    /\ \A c \in Callers : pc[c] = "done"
    /\ Len(storage) = MaxStore
    /\ \E i \in 1..Len(storage) : storage[i].id <= MaxInit /\ storage[i].expired

\* C28: after two concurrent signingKeys calls that both started on a
\* storage with no signing key have returned, a token signed with the list
\* one of them returned is accepted by JWT.verify with the list the other
\* one returned
ColdStart(c) ==
    /\ pc[c] = "done"
    /\ prefix[c] = Signing
    /\ Under(before[c], Signing) = <<>>

C28_CallersAgree ==
    (\A c \in Callers : ColdStart(c)) =>
        \A c, d \in Callers :
            LET key == SignKey(returned[c], ES256)
                tok == SignJWT(TestPayload, key, ES256)
            IN  /\ key # NoKey
                /\ VerifyKey(returned[d]) # NoKey
                /\ jwtVerify(tok, VerifyKey(returned[d]), MatchingOptions)

\* C29: the two purposes are isolated: every key pair a call has collected
\* or returned comes from a record stored under the call's own prefix and
\* has that purpose's key material, and a step that writes the storage
\* leaves the records under the other prefix as they are
Own(c, keys) ==
    \A i \in 1..Len(keys) :
        /\ keys[i].material = AlgOf(prefix[c])
        /\ \E j \in 1..Len(storage) :
              storage[j].id = keys[i].id /\ storage[j].prefix = prefix[c]

C29_PurposeIsolation ==
    /\ [](\A c \in Callers : Own(c, results[c]) /\ Own(c, returned[c]))
    /\ [][\A c \in Callers : Generate(c) =>
              \A p \in Prefix \ {prefix[c]} :
                  Under(storage', p) = Under(storage, p)]_vars

C29_Witness ==
    \E c, d \in Callers :
        /\ prefix[c] # prefix[d]
        /\ pc[c] = "done" /\ returned[c] # <<>> /\ sets[c] > 0
        /\ sets[d] > 0

\* C30: when the payload has an exp claim, expiresAt reads as the current
\* time plus the raw exp value, and expired tells whether that instant is
\* before the current time
C30_ExpiresAtIsNowPlusExp ==
    /\ (Read("expiresAt") /\ has(jwt.payload, "exp")) =>
           last.value = Just(last.now + jwt.payload.exp)
    /\ (Read("expired") /\ has(jwt.payload, "exp")) =>
           last.value = Just(last.now + jwt.payload.exp < last.later)

\* C33: the protected header of a token JWT.sign produced has typ 'JWT' and
\* a kid that tells which key pair signed it: a token signed with another
\* key pair of the list would carry another kid
C33_KidIdentifiesKey ==
    token.state = "signed" =>
        /\ token.typ = "JWT"
        /\ \A i \in 1..Len(returned[Main]) :
              LET other == SignJWT(jwt.payload, returned[Main][i], token.alg)
              IN  (other.state = "signed" /\ other.signer # token.signer) =>
                      other.kid # token.kid

\* C31: reading issuedAt (or notBefore) right after it was set to a date D
\* returns the instant D truncated to whole seconds
Wrote(prop) ==
    /\ last.op = "get"
    /\ last.prop = prop
    /\ last.wrote # NoCall

C31_DateRoundTrip ==
    \A prop \in DateProps :
        (Wrote(prop) /\ last.wrote.value # Null) =>
            last.value =
                Just(NewDate((getTime(last.wrote.value.value) \div Second) * Second))

\* C32: after issuedAt (or notBefore) was set to a date, the payload's iat
\* (nbf) is the whole number of seconds floor(milliseconds / 1000) of that
\* date, and after it was set to null the payload has no value there; only
\* the accessor's own setter changes that value, so it stays the one of the
\* last date set
Assigned(prop) == last.op = "set" /\ last.prop = prop

C32_SettersStoreSeconds ==
    /\ [](\A prop \in DateProps :
            Assigned(prop) =>
                Member(jwt.payload, ClaimOf(prop)) =
                    IF last.value = Null THEN Undefined
                    ELSE Num(getTime(last.value.value) \div Second))
    /\ [][\A prop \in DateProps :
              Member(jwt'.payload, ClaimOf(prop)) # Member(jwt.payload, ClaimOf(prop))
                  => (last'.op = "set" /\ last'.prop = prop)]_vars

C32_Witness ==
    /\ Assigned("issuedAt")
    /\ last.value = Just(NewDate(MaxSec * Second + Second - 1))
    /\ jwt.payload.iat = Num(MaxSec)
    /\ has(jwt.payload, "nbf")
    /\ jwt.payload.nbf = Undefined

\* C34: reading a registered claim right after it was set to null returns
\* null and does not throw, as for a claim that was never set
C34_ClearedReadsNull ==
    \A prop \in Registered :
        (Wrote(prop) /\ last.wrote.value = Null) => last.value = Null

====
